---- MODULE Spec2Model ----
(***************************************************************************)
(* Connection lifecycle of the Gmail extension popup: the click handler of *)
(* the connect button (token acquisition, userinfo, /store-gmail-token,    *)
(* the retrying /connect-gmail handshake) and the click handler of the     *)
(* logout button, both acting on chrome.storage.local and on the two       *)
(* buttons of the popup.  Every await and every callback of the source is  *)
(* a point where another handler may run, so every handler is a sequence   *)
(* of steps and several invocations of a handler may be alive at once.     *)
(***************************************************************************)
EXTENDS Naturals, Sequences, FiniteSets

\* ---- bounds of the model ----
MaxConnects == 2
MaxLogouts == 1

Connects == 1..MaxConnects
Logouts == 1..MaxLogouts

\* ---- values ----
Absent == "absent"
Undefined == "undefined"
Tokens == {"tok_abc", "tok_xyz"}
Emails == {"user@example.com"}
UserInfoEmails == Emails \cup {Undefined}
Details == {"bad token", Undefined}
NoError == [kind |-> "none", detail |-> "none", last |-> [kind |-> "none", attempt |-> 0]]
NoBody == [email |-> Absent, token |-> Absent]

\* attemptHandshake = async (retries = 3, delay = 1000)
retries == 3
delay == 1000

VARIABLES store, ui, conn, lo

vars == <<store, ui, conn, lo>>

\* ---- chrome.storage.local ----
EmptyStore == [isConnected |-> Absent, userEmail |-> Absent, gmailToken |-> Absent]

\* chrome.storage.local.set({ 'gmailToken': token })
SetGmailToken(s, token) == [s EXCEPT !.gmailToken = token]

\* chrome.storage.local.set({ isConnected: true, userEmail: userInfo.email });
\* a property whose value is undefined is not serialised, so the key is left alone
SetConnected(s, email) ==
    [s EXCEPT !.isConnected = "true",
              !.userEmail = IF email = Undefined THEN @ ELSE email]

\* chrome.storage.local.remove(['isConnected', 'userEmail', 'gmailToken'])
RemoveSession(s) ==
    [s EXCEPT !.isConnected = Absent, !.userEmail = Absent, !.gmailToken = Absent]

\* ---- the two buttons ----
setButtonLoading(u, isLoading) ==
    [u EXCEPT !.label = IF isLoading THEN "Connecting..." ELSE "Connect your Gmail",
              !.disabled = isLoading]

\* setButtonLoading(false); connectGmailButton.textContent = 'Error connecting. Try again'
ShowError(u) == [setButtonLoading(u, FALSE) EXCEPT !.label = "Error connecting. Try again"]

\* the connected UI: connect button disabled and hidden, logout button shown
ShowConnectedUI(u) ==
    [u EXCEPT !.label = "Connected!", !.disabled = TRUE,
              !.connectShown = FALSE, !.logoutShown = TRUE]

\* the UI reset of the logout handler
ResetUI(u) ==
    [u EXCEPT !.label = "Connect your Gmail", !.disabled = FALSE,
              !.connectShown = TRUE, !.logoutShown = FALSE]

\* a click reaches a handler only on a button that is displayed and not disabled
ConnectClickable == ui.connectShown /\ ~ui.disabled
LogoutClickable == ui.logoutShown

\* ---- errors ----
\* new Error(`Attempt ${attempt}: Failed to connect Gmail`) or the TypeError of fetch
HttpError(attempt) == [kind |-> "http", attempt |-> attempt]
NetError == [kind |-> "net", attempt |-> 0]
HandshakeErrors(attempt) == {HttpError(attempt), NetError}

\* new Error(`Failed to connect Gmail: ${errorData.detail || 'Unknown error'}`)
RegistrationRejected(d) ==
    [NoError EXCEPT !.kind = "RegistrationRejected",
                    !.detail = IF d = Undefined THEN "Unknown error" ELSE d]

\* new Error(`Failed after ${retries} attempts: ${error.message}`)
HandshakeExhausted(e) == [NoError EXCEPT !.kind = "HandshakeExhausted", !.last = e]

\* the loop giving up one attempt late
IsLastAttemptOffByOne(attempt) == attempt = retries + 1

\* if (attempt === retries)
IsLastAttempt(attempt) == attempt = retries

\* the guard of the logout handler left out
NoUserEmailUnchecked(userEmail) == FALSE

\* if (!userEmail)
NoUserEmail(userEmail) == userEmail = Absent

\* ---- what the handlers send ----
\* the handshake sent with the module-level currentToken (which is never set)
\* in place of the token of the callback
HandshakeBodyGlobalToken(c) == [email |-> c.email, token |-> Absent]

\* body: JSON.stringify({ email: userInfo.email, token: token }) of /connect-gmail
HandshakeBody(c) == [email |-> c.email, token |-> c.token]

\* body: JSON.stringify({ email: userInfo.email, token: token }) of /store-gmail-token
StoreTokenBody(c) == [email |-> c.email, token |-> c.token]

\* the logout notified with the userEmail of the store as it is after the remove
LogoutBodyAfterClear(r) == [email |-> Absent, token |-> Absent]

\* body: JSON.stringify({ email: userEmail }) of /logout-gmail
LogoutBody(r) == [email |-> r.userEmail, token |-> Absent]

\* chrome.identity.removeCachedAuthToken({ token: gmailToken }, ...)
RevokeDetails(r) == [email |-> Absent, token |-> r.gmailToken]

\* a delay growing with the attempt
RetryDelayGrowing(attempt) == delay * attempt

\* setTimeout(resolve, delay): the same delay after every failed attempt
RetryDelay(attempt) == delay

\* ---- state of one invocation of each handler ----
\* pc is the await or callback the invocation is suspended at; token, email and
\* attempt are its closure variables; writes, infoCalls, storeCalls, hsCalls and
\* waits count its chrome.storage.local.set calls, its requests to userinfo, its
\* POSTs to /store-gmail-token and to /connect-gmail and its setTimeout waits;
\* slept is the sum of the delays of its waits; storeBody and hsBody are the
\* bodies of its latest POSTs; error is the Error it logged
IdleConnect ==
    [pc |-> "idle", token |-> Absent, email |-> Absent, attempt |-> 0,
     writes |-> 0, infoCalls |-> 0, storeCalls |-> 0, hsCalls |-> 0, waits |-> 0,
     slept |-> 0, storeBody |-> NoBody, hsBody |-> NoBody,
     error |-> NoError]

\* removes, revokes and notifies count the chrome.storage.local.remove calls, the
\* removeCachedAuthToken calls and the POSTs to /logout-gmail of the invocation;
\* revokeArg and notifyBody are what the latter two were given
IdleLogout ==
    [pc |-> "idle", userEmail |-> Absent, gmailToken |-> Absent,
     removes |-> 0, revokes |-> 0, notifies |-> 0,
     revokeArg |-> NoBody, notifyBody |-> NoBody]

\* a handler that has returned: its closure (token, userInfo, attempt) is gone,
\* what it did (the calls it made, the error it reported) stays on record
ConnectReturned(c, pc, error) ==
    [IdleConnect EXCEPT !.pc = pc, !.error = error, !.writes = c.writes,
                        !.infoCalls = c.infoCalls,
                        !.storeCalls = c.storeCalls, !.hsCalls = c.hsCalls,
                        !.waits = c.waits, !.slept = c.slept]

LogoutReturned(r, pc) ==
    [IdleLogout EXCEPT !.pc = pc, !.removes = r.removes, !.revokes = r.revokes,
                       !.notifies = r.notifies]

\* the popup opens on an empty store: the initial connection check finds no
\* isConnected and leaves the connect button shown and the logout button hidden
Init ==
    /\ store = EmptyStore
    /\ ui = [label |-> "Connect your Gmail", disabled |-> FALSE,
             connectShown |-> TRUE, logoutShown |-> FALSE]
    /\ conn = [a \in Connects |-> IdleConnect]
    /\ lo = [l \in Logouts |-> IdleLogout]

\* chrome.identity.getAuthToken hands back a token this popup already holds (the
\* cached one) or a new one; tokens are opaque, so new ones are named in order
TokensHeld ==
    ({store.gmailToken} \cup {conn[a].token : a \in Connects}
                       \cup {lo[l].gmailToken : l \in Logouts}) \ {Absent}
NewToken == IF "tok_abc" \in TokensHeld THEN "tok_xyz" ELSE "tok_abc"
IssuableTokens == TokensHeld \cup {NewToken}

\* invocations are numbered in the order of the clicks
NextConnect(a) == conn[a].pc = "idle" /\ \A b \in Connects : b < a => conn[b].pc # "idle"
NextLogout(l) == lo[l].pc = "idle" /\ \A k \in Logouts : k < l => lo[k].pc # "idle"

\* ---- connectGmailButton click handler ----
\* setButtonLoading(true); chrome.identity.getAuthToken({ interactive: true }, ...)
ConnectClick(a) ==
    /\ ConnectClickable
    /\ NextConnect(a)
    /\ ui' = setButtonLoading(ui, TRUE)
    /\ conn' = [conn EXCEPT ![a].pc = "acquiring"]
    /\ UNCHANGED <<store, lo>>

\* the lastError branch without its return: the callback goes on with no token
GetAuthTokenErrorFallsThrough(a) ==
    /\ conn[a].pc = "acquiring"
    /\ store' = SetGmailToken(store, Absent)
    /\ conn' = [conn EXCEPT ![a].pc = "userinfo", ![a].writes = @ + 1,
                            ![a].infoCalls = @ + 1,
                            ![a].error = [NoError EXCEPT !.kind = "AuthDenied"]]
    /\ UNCHANGED <<ui, lo>>

\* the callback with chrome.runtime.lastError set
GetAuthTokenError(a) ==
    /\ conn[a].pc = "acquiring"
    /\ ui' = ShowError(ui)
    /\ conn' = [conn EXCEPT ![a] = ConnectReturned(@, "failed", [NoError EXCEPT !.kind = "AuthDenied"])]
    /\ UNCHANGED <<store, lo>>

\* the callback with a token: the token is stored, then userinfo is fetched
GetAuthTokenOk(a, token) ==
    /\ conn[a].pc = "acquiring"
    /\ token \in IssuableTokens
    /\ store' = SetGmailToken(store, token)
    /\ conn' = [conn EXCEPT ![a].pc = "userinfo", ![a].token = token,
                            ![a].writes = @ + 1, ![a].infoCalls = @ + 1]
    /\ UNCHANGED <<ui, lo>>

\* the userinfo fetch or response.json() throws: the catch of the callback
UserInfoThrow(a) ==
    /\ conn[a].pc = "userinfo"
    /\ ui' = ShowError(ui)
    /\ conn' = [conn EXCEPT ![a] = ConnectReturned(@, "failed", [NoError EXCEPT !.kind = "IdentityFailed"])]
    /\ UNCHANGED <<store, lo>>

\* userInfo is parsed (its email is undefined in an error body): POST /store-gmail-token
UserInfoOk(a, email) ==
    /\ conn[a].pc = "userinfo"
    /\ conn' = [conn EXCEPT ![a].pc = "registering", ![a].email = email,
                            ![a].storeCalls = @ + 1,
                            ![a].storeBody = StoreTokenBody([conn[a] EXCEPT !.email = email])]
    /\ UNCHANGED <<store, ui, lo>>

\* the fetch of /store-gmail-token throws
StoreTokenThrow(a) ==
    /\ conn[a].pc = "registering"
    /\ ui' = ShowError(ui)
    /\ conn' = [conn EXCEPT ![a] = ConnectReturned(@, "failed", [NoError EXCEPT !.kind = "NetworkError"])]
    /\ UNCHANGED <<store, lo>>

\* !storeTokenResponseBackend.ok
StoreTokenRejected(a, d) ==
    /\ conn[a].pc = "registering"
    /\ ui' = ShowError(ui)
    /\ conn' = [conn EXCEPT ![a] = ConnectReturned(@, "failed", RegistrationRejected(d))]
    /\ UNCHANGED <<store, lo>>

\* storeTokenResponseBackend.ok: isConnected and userEmail are stored
StoreTokenOk(a) ==
    /\ conn[a].pc = "registering"
    /\ store' = SetConnected(store, conn[a].email)
    /\ conn' = [conn EXCEPT ![a].pc = "stored", ![a].writes = @ + 1]
    /\ UNCHANGED <<ui, lo>>

\* after the await: the connected UI is shown and chrome.tabs.create is called
ShowConnected(a) ==
    /\ conn[a].pc = "stored"
    /\ ui' = ShowConnectedUI(ui)
    /\ conn' = [conn EXCEPT ![a].pc = "tabcreate"]
    /\ UNCHANGED <<store, lo>>

\* the callback of chrome.tabs.create: attemptHandshake() issues its first fetch
TabCreated(a) ==
    /\ conn[a].pc = "tabcreate"
    /\ conn' = [conn EXCEPT ![a].pc = "handshaking", ![a].attempt = 1,
                            ![a].hsCalls = @ + 1, ![a].hsBody = HandshakeBody(conn[a])]
    /\ UNCHANGED <<store, ui, lo>>

\* handshakeResponse.ok: attemptHandshake returns, isConnected and userEmail are stored
HandshakeOk(a) ==
    /\ conn[a].pc = "handshaking"
    /\ store' = SetConnected(store, conn[a].email)
    /\ conn' = [conn EXCEPT ![a] = ConnectReturned([@ EXCEPT !.writes = @ + 1], "connected", NoError)]
    /\ UNCHANGED <<ui, lo>>

\* the fetch throws or the response is not ok: the catch inside the loop
HandshakeFail(a, e) ==
    /\ conn[a].pc = "handshaking"
    /\ e \in HandshakeErrors(conn[a].attempt)
    /\ IF IsLastAttempt(conn[a].attempt)
         THEN /\ ui' = ShowError(ui)
              /\ conn' = [conn EXCEPT ![a] = ConnectReturned(@, "failed", HandshakeExhausted(e))]
         ELSE /\ ui' = ui
              /\ conn' = [conn EXCEPT ![a].pc = "waiting",
                                      ![a].waits = @ + 1,
                                      ![a].slept = @ + RetryDelay(conn[a].attempt)]
    /\ UNCHANGED <<store, lo>>

\* the loop of attemptHandshake without its attempt++
RetryTimerSameAttempt(a) ==
    /\ conn[a].pc = "waiting"
    /\ conn' = [conn EXCEPT ![a].pc = "handshaking",
                            ![a].hsCalls = @ + 1, ![a].hsBody = HandshakeBody(conn[a])]
    /\ UNCHANGED <<store, ui, lo>>

\* setTimeout(resolve, delay) fires: the next iteration of the loop issues its fetch
RetryTimer(a) ==
    /\ conn[a].pc = "waiting"
    /\ conn' = [conn EXCEPT ![a].pc = "handshaking", ![a].attempt = @ + 1,
                            ![a].hsCalls = @ + 1, ![a].hsBody = HandshakeBody(conn[a])]
    /\ UNCHANGED <<store, ui, lo>>

\* ---- logoutButton click handler ----
\* chrome.storage.local.get(['userEmail', 'gmailToken']) is requested
LogoutClick(l) ==
    /\ LogoutClickable
    /\ NextLogout(l)
    /\ lo' = [lo EXCEPT ![l].pc = "reading"]
    /\ UNCHANGED <<store, ui, conn>>

\* the read resolves; without a userEmail the handler returns
LogoutRead(l) ==
    /\ lo[l].pc = "reading"
    /\ lo' = [lo EXCEPT ![l] = IF NoUserEmail(store.userEmail)
                                   THEN LogoutReturned(@, "invalid")
                                   ELSE [@ EXCEPT !.pc = "clearing",
                                                  !.userEmail = store.userEmail,
                                                  !.gmailToken = store.gmailToken]]
    /\ UNCHANGED <<store, ui, conn>>

\* chrome.storage.local.remove([...]), then chrome.identity.removeCachedAuthToken
LogoutClear(l) ==
    /\ lo[l].pc = "clearing"
    /\ store' = RemoveSession(store)
    /\ lo' = [lo EXCEPT ![l].pc = "revoking", ![l].removes = @ + 1,
                        ![l].revokes = @ + 1, ![l].revokeArg = RevokeDetails(lo[l])]
    /\ UNCHANGED <<ui, conn>>

\* the callback of removeCachedAuthToken (whatever its outcome): UI reset, POST /logout-gmail
LogoutRevoked(l) ==
    /\ lo[l].pc = "revoking"
    /\ ui' = ResetUI(ui)
    /\ lo' = [lo EXCEPT ![l].pc = "notifying", ![l].notifies = @ + 1,
                        ![l].notifyBody = LogoutBody(lo[l])]
    /\ UNCHANGED <<store, conn>>

\* the response of /logout-gmail (ok, not ok, or a throw): logged only
LogoutNotified(l) ==
    /\ lo[l].pc = "notifying"
    /\ lo' = [lo EXCEPT ![l] = LogoutReturned(@, "done")]
    /\ UNCHANGED <<store, ui, conn>>

Next ==
    \/ \E a \in Connects : ConnectClick(a)
    \/ \E a \in Connects : GetAuthTokenError(a)
    \/ \E a \in Connects, token \in Tokens : GetAuthTokenOk(a, token)
    \/ \E a \in Connects : UserInfoThrow(a)
    \/ \E a \in Connects, email \in UserInfoEmails : UserInfoOk(a, email)
    \/ \E a \in Connects : StoreTokenThrow(a)
    \/ \E a \in Connects, d \in Details : StoreTokenRejected(a, d)
    \/ \E a \in Connects : StoreTokenOk(a)
    \/ \E a \in Connects : ShowConnected(a)
    \/ \E a \in Connects : TabCreated(a)
    \/ \E a \in Connects : HandshakeOk(a)
    \/ \E a \in Connects, e \in {HttpError(k) : k \in 1..retries} \cup {NetError} : HandshakeFail(a, e)
    \/ \E a \in Connects : RetryTimer(a)
    \/ \E l \in Logouts : LogoutClick(l)
    \/ \E l \in Logouts : LogoutRead(l)
    \/ \E l \in Logouts : LogoutClear(l)
    \/ \E l \in Logouts : LogoutRevoked(l)
    \/ \E l \in Logouts : LogoutNotified(l)

Spec == Init /\ [][Next]_vars

\* ---- the lifecycle states of a connect attempt ----
Acquiring == {"acquiring", "userinfo"}
Registering == {"registering"}
Handshaking == {"stored", "tabcreate", "handshaking", "waiting"}
Intermediate == Acquiring \cup Registering \cup Handshaking
InProgress(a) == conn[a].pc \in Intermediate
HandshakeSucceeded(a) == conn[a].pc = "connected"

\* C1: the persisted isConnected is true only after a handshake call has returned
\* success; no earlier step of a connect attempt stores isConnected = true.
C1_ConnectedOnlyAfterHandshake ==
    store.isConnected = "true" => \E a \in Connects : HandshakeSucceeded(a)

\* C2: isConnected = true implies that userEmail and gmailToken are both present
\* and are a pair whose registration with the backend (the handshake) has succeeded.
C2_ConnectedImpliesRegisteredPair ==
    store.isConnected = "true" =>
        /\ store.userEmail # Absent
        /\ store.gmailToken # Absent
        /\ \E a \in Connects : HandshakeSucceeded(a)

\* C3: a connect attempt whose storeToken call is rejected has called storeToken
\* once, has made no handshake call, has written nothing to the session store
\* (the acquired token is not persisted) and reports the backend's detail.
C3_RejectedStoreTokenPersistsNothing ==
    \A a \in Connects :
        conn[a].error.kind = "RegistrationRejected" =>
            /\ conn[a].storeCalls = 1
            /\ conn[a].hsCalls = 0
            /\ conn[a].error.detail \in {"bad token", "Unknown error"}
            /\ conn[a].writes = 0

\* the part of C3 that the handler does keep: one storeToken call, no handshake call
C3_RejectedStoreTokenStopsTheAttempt ==
    \A a \in Connects :
        conn[a].error.kind = "RegistrationRejected" =>
            /\ conn[a].pc = "failed"
            /\ conn[a].storeCalls = 1
            /\ conn[a].hsCalls = 0

\* C4: when the handshake sub-protocol is exhausted, the session store is left
\* Disconnected: isConnected is not true and no gmailToken is persisted.
C4_ExhaustionLeavesDisconnected ==
    [][\A a \in Connects :
          (conn[a].pc = "handshaking" /\ conn'[a].error.kind = "HandshakeExhausted") =>
              (store'.isConnected # "true" /\ store'.gmailToken = Absent)]_vars

\* C5: when every handshake call fails, exactly 3 calls are made, never more (no
\* wait follows the third failure), and the attempt fails with HandshakeExhausted
\* carrying the error of the third call.
C5_ExhaustedAfterExactlyThreeCalls ==
    \A a \in Connects :
        /\ conn[a].hsCalls <= 3
        /\ conn[a].pc = "waiting" => conn[a].hsCalls < 3
        /\ conn[a].error.kind = "HandshakeExhausted" =>
              /\ conn[a].pc = "failed"
              /\ conn[a].hsCalls = 3
              /\ conn[a].error.last \in {HttpError(3), NetError}

C5_Witness ==
    \E a \in Connects :
        /\ conn[a].error.kind = "HandshakeExhausted"
        /\ conn[a].hsCalls = 3
        /\ conn[a].error.last = HttpError(3)

\* C6: when the first successful handshake response is that of attempt k, exactly
\* k handshake calls have been made and the attempt ends with the session store
\* holding isConnected = true, the resolved userEmail and the acquired gmailToken.
C6_FirstSuccessCommitsTheSession ==
    [][\A a \in Connects :
          (conn[a].pc = "handshaking" /\ conn'[a].pc = "connected"
                                      /\ conn[a].email # Undefined) =>
              /\ conn'[a].hsCalls = conn[a].attempt
              /\ store' = [isConnected |-> "true", userEmail |-> conn[a].email,
                           gmailToken |-> conn[a].token]]_vars

\* the part of C6 that the handler does keep: k calls for a success on attempt k,
\* and none after it
C6_ShortCircuitOnFirstSuccess ==
    [][\A a \in Connects :
          /\ (conn[a].pc = "handshaking" /\ conn'[a].pc = "connected") =>
                (conn'[a].hsCalls = conn[a].attempt /\ conn[a].attempt \in 1..3)
          /\ conn[a].pc = "connected" => conn'[a] = conn[a]]_vars

\* C7: a disconnect that found a userEmail clears the store before it asks for
\* the provider revoke and the backend revokeSession, and when it ends the store
\* is cleared (isConnected not true) whatever the outcome of those two calls.
C7_DisconnectEndsCleared ==
    [][\A l \in Logouts :
          /\ lo'[l].revokes > 0 => lo'[l].removes > 0
          /\ lo'[l].notifies > 0 => lo'[l].removes > 0
          /\ (lo[l].pc = "notifying" /\ lo'[l].pc = "done") => store'.isConnected # "true"]_vars

\* the part of C7 that the handler does keep: the clear comes first and no later
\* step of the logout handler writes to the store
C7_ClearPrecedesRevokes ==
    [][\A l \in Logouts :
          /\ lo'[l].revokes > 0 => lo'[l].removes > 0
          /\ lo'[l].notifies > 0 => lo'[l].removes > 0
          /\ (lo[l].pc = "clearing" /\ lo'[l].pc # "clearing") => store' = EmptyStore
          /\ (lo[l].pc \in {"revoking", "notifying"} /\ lo'[l] # lo[l]) => store' = store]_vars

\* C8: a disconnect that finds no userEmail in the store returns at once
\* (InvalidState): it removes nothing, asks for no provider revoke, makes no
\* backend call, leaves the store and the buttons as they are, and never acts again.
C8_DisconnectWithoutIdentityTouchesNothing ==
    [][\A l \in Logouts :
          /\ (lo[l].pc = "reading" /\ lo'[l] # lo[l] /\ store.userEmail = Absent) =>
                /\ lo'[l].pc = "invalid"
                /\ lo'[l].removes = 0 /\ lo'[l].revokes = 0 /\ lo'[l].notifies = 0
                /\ store' = store
                /\ ui' = ui
          /\ lo[l].pc = "invalid" => lo'[l] = lo[l]]_vars

C8_Witness ==
    \E l \in Logouts :
        /\ lo[l].pc = "invalid"
        /\ lo[l].removes = 0 /\ lo[l].revokes = 0 /\ lo[l].notifies = 0

\* C9: a connect requested while another connect attempt has not resolved is
\* rejected, so at most one connect attempt is in progress at any time.
C9_OneConnectAtATime ==
    Cardinality({a \in Connects : InProgress(a)}) <= 1

\* C10: while a connect attempt is Acquiring, Registering or Handshaking, a
\* disconnect request is rejected: the logout handler reads nothing, clears
\* nothing and asks for no revoke.
C10_NoDisconnectDuringConnect ==
    [][(\E a \in Connects : InProgress(a)) =>
          \A l \in Logouts :
              lo'[l].pc # lo[l].pc => lo'[l].pc \in {"reading", "done"}]_vars

\* C11: when getAuthToken reports an error, the attempt ends there: neither the
\* click nor the callback writes to the session store, no userinfo, storeToken or
\* handshake call is made, the button is enabled again, and the handler never
\* acts again.
C11_AcquisitionFailurePersistsNothing ==
    [][\A a \in Connects :
          /\ (conn[a].pc = "idle" /\ conn'[a].pc # "idle") => store' = store
          /\ conn'[a].error.kind = "AuthDenied" =>
                /\ conn'[a].pc = "failed"
                /\ conn'[a].writes = 0
                /\ conn'[a].infoCalls = 0
                /\ conn'[a].storeCalls = 0
                /\ conn'[a].hsCalls = 0
          /\ (conn[a].pc = "acquiring" /\ conn'[a].error.kind = "AuthDenied") =>
                (store' = store /\ ~ui'.disabled)
          /\ conn[a].error.kind = "AuthDenied" => conn'[a] = conn[a]]_vars

C11_Witness ==
    \E a \in Connects :
        /\ conn[a].pc = "failed"
        /\ conn[a].error.kind = "AuthDenied"
        /\ conn[a].writes = 0

\* C12: when the userinfo request throws or answers with a failure (a body with
\* no email), the attempt aborts as an acquisition failure does: nothing has been
\* written to the session store and storeToken and handshake are never called.
C12_IdentityFailurePersistsNothing ==
    \A a \in Connects :
        /\ conn[a].error.kind = "IdentityFailed" =>
              /\ conn[a].pc = "failed"
              /\ conn[a].writes = 0
              /\ conn[a].storeCalls = 0
              /\ conn[a].hsCalls = 0
        /\ conn[a].email = Undefined => conn[a].storeCalls = 0

\* the part of C12 that the handler does keep when userinfo throws: the attempt
\* fails with no storeToken and no handshake call
C12_IdentityThrowStopsTheAttempt ==
    \A a \in Connects :
        conn[a].error.kind = "IdentityFailed" =>
            /\ conn[a].pc = "failed"
            /\ conn[a].storeCalls = 0
            /\ conn[a].hsCalls = 0

\* C13: isConnected, userEmail and gmailToken are written together in one store
\* operation and cleared together in one store operation: a step that changes the
\* store leaves either all three set (the commit) or none (the clear).
C13_KeysWrittenAndClearedAsASet ==
    [][store' # store =>
          \/ store' = EmptyStore
          \/ /\ store'.isConnected = "true"
             /\ store'.userEmail # Absent
             /\ store'.gmailToken # Absent]_vars

\* the part of C13 that the handler does keep: the clear removes the three keys
\* in one operation
C13_ClearedAsASet ==
    [][\A l \in Logouts : lo'[l].removes > lo[l].removes => store' = EmptyStore]_vars

\* ---- scheduling ----
\* every storage operation, provider callback, fetch and timer of a handler that
\* is under way completes at some time
ConnectStep(a) ==
    \/ GetAuthTokenError(a)
    \/ \E token \in Tokens : GetAuthTokenOk(a, token)
    \/ UserInfoThrow(a)
    \/ \E email \in UserInfoEmails : UserInfoOk(a, email)
    \/ StoreTokenThrow(a)
    \/ \E d \in Details : StoreTokenRejected(a, d)
    \/ StoreTokenOk(a)
    \/ ShowConnected(a)
    \/ TabCreated(a)
    \/ HandshakeOk(a)
    \/ \E e \in {HttpError(k) : k \in 1..retries} \cup {NetError} : HandshakeFail(a, e)
    \/ RetryTimer(a)

LogoutStep(l) ==
    LogoutRead(l) \/ LogoutClear(l) \/ LogoutRevoked(l) \/ LogoutNotified(l)

SpecFair ==
    /\ Spec
    /\ \A a \in Connects : WF_vars(ConnectStep(a))
    /\ \A l \in Logouts : WF_vars(LogoutStep(l))

C15_NoStaleSessionAfterClear ==
    \A l \in Logouts :
        (lo[l].removes > 0 /\ lo[l].pc \in {"revoking", "notifying"}) =>
            (store.isConnected # "true" /\ store.gmailToken = Absent)

\* C16: in the handshake sub-protocol a wait of the fixed delay follows each
\* failed attempt that is followed by another attempt, between the failure and
\* the next call; there is no wait before the first call, after a success or
\* after the last failure, so an exhausted run of 3 calls has waited twice.
WaitsOf(c) ==
    /\ c.slept = c.waits * 1000
    /\ c.hsCalls = 0 => c.waits = 0
    /\ c.pc = "handshaking" => c.waits = c.hsCalls - 1
    /\ c.pc = "waiting" => c.waits = c.hsCalls
    /\ c.pc = "connected" => c.waits = c.hsCalls - 1
    /\ c.error.kind = "HandshakeExhausted" => (c.hsCalls = 3 /\ c.waits = 2)

C16_WaitBetweenFailedAttemptsOnly ==
    [][\A a \in Connects :
          /\ WaitsOf(conn'[a])
          /\ conn'[a].waits > conn[a].waits =>
                /\ conn[a].pc = "handshaking" /\ conn'[a].pc = "waiting"
                /\ conn'[a].waits = conn[a].waits + 1
                /\ conn'[a].hsCalls = conn[a].hsCalls
          /\ (conn'[a].hsCalls > conn[a].hsCalls /\ conn[a].hsCalls > 0) =>
                conn[a].pc = "waiting"]_vars

C16_Witness ==
    \E a \in Connects :
        /\ conn[a].error.kind = "HandshakeExhausted"
        /\ conn[a].hsCalls = 3
        /\ conn[a].waits = 2
        /\ conn[a].slept = 2000

\* C17: when every provider and backend call returns at some time, every connect
\* attempt that has started comes to its end, connected or failed, having made at
\* most 1 storeToken call and at most 3 handshake calls; a failed attempt
\* reports the error and enables the button again.
C17_ConnectAttemptTerminates ==
    /\ \A a \in Connects :
          (conn[a].pc # "idle") ~> (conn[a].pc \in {"connected", "failed"})
    /\ [][\A a \in Connects :
            /\ conn'[a].storeCalls <= 1
            /\ conn'[a].hsCalls <= 3
            /\ (conn[a].pc # "failed" /\ conn'[a].pc = "failed") =>
                  (ui'.label = "Error connecting. Try again" /\ ~ui'.disabled)
            /\ conn[a].pc \in {"connected", "failed"} => conn'[a] = conn[a]]_vars

C17_Witness ==
    \E a \in Connects :
        /\ conn[a].pc = "connected"
        /\ conn[a].storeCalls = 1
        /\ conn[a].hsCalls = 3

C19_OnePairPerAttempt ==
    [][\A a \in Connects :
          /\ conn'[a].storeCalls > conn[a].storeCalls =>
                /\ conn'[a].storeBody.token = conn[a].token
                /\ conn'[a].storeBody.email = conn'[a].email
          /\ conn'[a].hsCalls > conn[a].hsCalls =>
                /\ conn'[a].hsBody = conn[a].storeBody
                /\ conn'[a].storeBody = conn[a].storeBody
          /\ (conn'[a].writes > conn[a].writes /\ conn[a].storeCalls = 1
                                             /\ conn[a].storeBody.email # Undefined) =>
                store'.userEmail = conn[a].storeBody.email]_vars

C19_Witness ==
    \E a, b \in Connects :
        /\ conn[a].pc = "handshaking" /\ conn[a].hsCalls > 1
        /\ conn[b].pc = "handshaking"
        /\ conn[a].hsBody.token # conn[b].hsBody.token
        /\ conn[a].hsBody = conn[a].storeBody
        /\ conn[b].hsBody = conn[b].storeBody

\* ---- termination by a decreasing measure ----
\* the number of steps a connect attempt has left at most: every step of the
\* attempt lowers it, and an attempt under way always has a step to take
StepsLeft(c) ==
    CASE c.pc = "idle" -> 13
      [] c.pc = "acquiring" -> 12
      [] c.pc = "userinfo" -> 11
      [] c.pc = "registering" -> 10
      [] c.pc = "stored" -> 9
      [] c.pc = "tabcreate" -> 8
      [] c.pc = "handshaking" -> 9 - 2 * c.attempt
      [] c.pc = "waiting" -> 8 - 2 * c.attempt
      [] OTHER -> 0

LogoutStepsLeft(r) ==
    CASE r.pc = "idle" -> 5
      [] r.pc = "reading" -> 4
      [] r.pc = "clearing" -> 3
      [] r.pc = "revoking" -> 2
      [] r.pc = "notifying" -> 1
      [] OTHER -> 0

\* the safety half of C17 and C14: no handler can loop or get stuck
EveryStepAdvances ==
    [][/\ \A a \in Connects : conn'[a] # conn[a] => StepsLeft(conn'[a]) < StepsLeft(conn[a])
       /\ \A l \in Logouts : lo'[l] # lo[l] => LogoutStepsLeft(lo'[l]) < LogoutStepsLeft(lo[l])]_vars

PendingStepEnabled ==
    /\ \A a \in Connects : InProgress(a) => ENABLED ConnectStep(a)
    /\ \A l \in Logouts :
          lo[l].pc \in {"reading", "clearing", "revoking", "notifying"} => ENABLED LogoutStep(l)
====
